---- MODULE Spec2Model ----
(***************************************************************************)
(* A model of checklist.cpp: the Task record, the FileHandler that reads   *)
(* and writes checklist.txt, the ChecklistManager that owns the tasks and  *)
(* hands out ids, and the Menu loop that reads commands from std::cin.     *)
(*                                                                         *)
(* Text is modelled character by character: a std::string and the content  *)
(* of a file or of std::cin are sequences of one-character strings, and    *)
(* operator>>, ignore() and std::getline are modelled by what they do to   *)
(* the stream (the characters they consume, the eofbit and failbit they    *)
(* set, the value they store or leave alone).                              *)
(***************************************************************************)
EXTENDS Integers, Sequences, FiniteSets, TLC

\* ------------------------------------------------------------------ int

\* The largest and the smallest value of the type int (32 bits).
IntMax == 2147483647
IntMin == (-IntMax) - 1

\* The values a read of an indeterminate int, or the result of a signed
\* overflow, may have: any int, represented by both extremes (the usual
\* result of an overflow is IntMin), the first id and the exit choice.
AnyInt == {IntMin, 1, 5, IntMax}

\* x + 1 on an int: the set of possible results; undefined on overflow.
IntSucc(x) == IF x = IntMax THEN AnyInt ELSE {x + 1}

\* ----------------------------------------------------------------- text

DigitChars == <<"0", "1", "2", "3", "4", "5", "6", "7", "8", "9">>
Digit == {DigitChars[i] : i \in 1..10}
DigitVal(c) == (CHOOSE i \in 1..10 : DigitChars[i] = c) - 1

\* std::isspace in the classic locale, as far as the inputs here go.
WS == {" ", "\n", "\t"}

RECURSIVE Concat(_)
Concat(ss) == IF ss = <<>> THEN <<>> ELSE Head(ss) \o Concat(Tail(ss))

\* The decimal digits of n >= 0, as operator<<(int) writes them.
RECURSIVE NatToStr(_)
NatToStr(n) ==
    IF n < 10 THEN <<DigitChars[n + 1]>>
    ELSE NatToStr(n \div 10) \o <<DigitChars[(n % 10) + 1]>>

\* operator<<(std::ostream&, int): an optional '-' and the decimal digits.
IntToStr(n) ==
    IF n >= 0 THEN NatToStr(n)
    ELSE IF n = IntMin THEN <<"-">> \o NatToStr(IntMax \div 10) \o <<"8">>
    ELSE <<"-">> \o NatToStr(-n)

\* operator<<(std::ostream&, bool) without boolalpha.
BoolToStr(b) == IF b THEN <<"1">> ELSE <<"0">>

\* -------------------------------------------------------------- streams

\* An input stream: buf is what has not been read yet, closed says that
\* nothing more will arrive after buf (a file is always closed; std::cin
\* is closed once the terminal has signalled end of input), eof and fail
\* are the eofbit and the failbit.
OpenStream(content, isClosed) ==
    [buf |-> content, closed |-> isClosed, eof |-> FALSE, fail |-> FALSE]

\* basic_ios::good()
good(s) == ~s.eof /\ ~s.fail

\* The index of the first character of b that is not in set S, Len(b) + 1
\* when there is none.
RECURSIVE FirstNotIn(_, _, _)
FirstNotIn(b, S, i) ==
    IF i > Len(b) \/ b[i] \notin S THEN i ELSE FirstNotIn(b, S, i + 1)

Drop(b, n) == SubSeq(b, n + 1, Len(b))

\* The digits ds accumulated as a negative number, the way num_get keeps
\* the magnitude within range: [v |-> -magnitude, over |-> overflowed].
RECURSIVE AccumNeg(_, _, _)
AccumNeg(ds, acc, over) ==
    IF ds = <<>> THEN [v |-> acc, over |-> over]
    ELSE LET d == DigitVal(Head(ds))
             minDiv == -(IntMax \div 10)
         IN  IF over \/ acc < minDiv \/ (acc = minDiv /\ d > 8)
             THEN AccumNeg(Tail(ds), acc, TRUE)
             ELSE AccumNeg(Tail(ds), (acc * 10) - d, FALSE)

\* operator>>(std::istream&, int&) with the variable holding old before:
\* [s |-> the stream after, val |-> the variable after, stored |-> a value
\* was stored in the variable, blocked |-> the read waits for more input].
\* A stream that is not good() fails in the
\* sentry and leaves the variable alone; so does one that ends while
\* white space is skipped.  Otherwise an optional sign and the digits are
\* consumed; no digit stores 0 and sets failbit, an out-of-range number
\* stores the nearest limit and sets failbit, and reaching the end of the
\* input while reading sets eofbit.
ExtractInt(s, old) ==
    IF ~good(s)
    THEN [s |-> [s EXCEPT !.fail = TRUE], val |-> old, stored |-> FALSE,
          blocked |-> FALSE]
    ELSE
    LET b == Drop(s.buf, FirstNotIn(s.buf, WS, 1) - 1)
    IN  IF b = <<>>
        THEN IF ~s.closed
             THEN [s |-> s, val |-> old, stored |-> FALSE, blocked |-> TRUE]
             ELSE [s |-> [s EXCEPT !.buf = <<>>, !.eof = TRUE, !.fail = TRUE],
                   val |-> old, stored |-> FALSE, blocked |-> FALSE]
        ELSE
        LET signed == Head(b) \in {"-", "+"}
            neg == Head(b) = "-"
            b1 == IF signed THEN Tail(b) ELSE b
            n == FirstNotIn(b1, Digit, 1) - 1
            ds == SubSeq(b1, 1, n)
            rest == Drop(b1, n)
            acc == AccumNeg(ds, 0, FALSE)
            over == acc.over \/ (~neg /\ acc.v = IntMin)
            v == IF n = 0 THEN 0
                 ELSE IF over THEN (IF neg THEN IntMin ELSE IntMax)
                 ELSE IF neg THEN acc.v ELSE -acc.v
        IN  IF rest = <<>> /\ ~s.closed
            THEN [s |-> s, val |-> old, stored |-> FALSE, blocked |-> TRUE]
            ELSE [s |-> [s EXCEPT !.buf = rest,
                                  !.eof = (rest = <<>>),
                                  !.fail = (n = 0 \/ over)],
                  val |-> v, stored |-> TRUE, blocked |-> FALSE]

\* std::istream::ignore(): discards one character; sets eofbit when there
\* is none; does nothing but set failbit on a stream that is not good().
Ignore(s) ==
    IF ~good(s)
    THEN [s |-> [s EXCEPT !.fail = TRUE], blocked |-> FALSE]
    ELSE IF s.buf = <<>>
    THEN IF ~s.closed
         THEN [s |-> s, blocked |-> TRUE]
         ELSE [s |-> [s EXCEPT !.eof = TRUE], blocked |-> FALSE]
    ELSE [s |-> [s EXCEPT !.buf = Tail(s.buf)], blocked |-> FALSE]

\* std::getline(stream, str) with str holding old before: the characters
\* up to the next '\n', which is consumed and not stored.  On a stream that
\* is not good() the sentry fails and str keeps its old value; at the end
\* of the input the rest is stored, eofbit is set, and failbit too when
\* nothing was extracted.
GetLine(s, old) ==
    IF ~good(s)
    THEN [s |-> [s EXCEPT !.fail = TRUE], val |-> old, blocked |-> FALSE]
    ELSE
    LET n == FirstNotIn(s.buf, {s.buf[i] : i \in 1..Len(s.buf)} \ {"\n"}, 1)
    IN  IF n <= Len(s.buf)
        THEN [s |-> [s EXCEPT !.buf = Drop(s.buf, n)],
              val |-> SubSeq(s.buf, 1, n - 1), blocked |-> FALSE]
        ELSE IF ~s.closed
        THEN [s |-> s, val |-> old, blocked |-> TRUE]
        ELSE [s |-> [s EXCEPT !.buf = <<>>, !.eof = TRUE,
                              !.fail = (s.buf = <<>>)],
              val |-> s.buf, blocked |-> FALSE]

\* ----------------------------------------------------------------- Task

\* Task::Task(taskId, desc): a new task is not completed.
Task(taskId, desc) ==
    [id |-> taskId, completed |-> FALSE, description |-> desc]

\* A toggle that only ever marks the task as completed.
markComplete(t) == [t EXCEPT !.completed = TRUE]

\* Task::toggleComplete()
toggleComplete(t) == [t EXCEPT !.completed = ~t.completed]

\* ---------------------------------------------------------- FileHandler

\* checklist.txt: exists says that the file can be opened for reading,
\* content is its text.
NoFile == [exists |-> FALSE, content |-> <<>>]
FileOf(text) == [exists |-> TRUE, content |-> text]

\* The loop of loadTasks: s is the ifstream, desc the std::string declared
\* before the loop (it keeps its value from one round to the next), acc
\* the tasks pushed so far.  `file >> id >> completed` is true while
\* failbit is not set.
RECURSIVE LoadLoop(_, _, _)
LoadLoop(s, desc, acc) ==
    LET rid == ExtractInt(s, 0)
        rc == ExtractInt(rid.s, 0)
    IN  IF rc.s.fail THEN acc
        ELSE LET rl == GetLine(Ignore(rc.s).s, desc)
                 t == Task(rid.val, rl.val)
                 task == IF rc.val # 0 THEN toggleComplete(t) ELSE t
             IN  LoadLoop(rl.s, rl.val, Append(acc, task))

\* FileHandler::loadTasks(): no tasks when the file cannot be opened.
loadTasks(f) ==
    IF ~f.exists THEN <<>>
    ELSE LoadLoop(OpenStream(f.content, TRUE), <<>>, <<>>)

\* A line written without the space that ends an empty description's
\* record.
TaskLineTrimmed(t) ==
    IntToStr(t.id) \o <<" ">> \o BoolToStr(t.completed)
        \o (IF t.description = <<>> THEN <<>> ELSE <<" ">> \o t.description)
        \o <<"\n">>

\* The line saveTasks writes for one task.
TaskLine(t) ==
    IntToStr(t.id) \o <<" ">> \o BoolToStr(t.completed) \o <<" ">>
        \o t.description \o <<"\n">>

\* A save that opens the file for appending and so keeps what it held.
saveTasksAppend(f, canWrite, ts) ==
    IF ~canWrite THEN [threw |-> TRUE, file |-> f]
    ELSE [threw |-> FALSE,
          file |-> FileOf(f.content
                          \o Concat([i \in 1..Len(ts) |-> TaskLine(ts[i])]))]

\* FileHandler::saveTasks(tasks) on file f: [threw |-> std::runtime_error
\* was thrown, file |-> the file after].  Opening for writing truncates.
saveTasks(f, canWrite, ts) ==
    IF ~canWrite THEN [threw |-> TRUE, file |-> f]
    ELSE [threw |-> FALSE,
          file |-> FileOf(Concat([i \in 1..Len(ts) |-> TaskLine(ts[i])]))]

\* ----------------------------------------------------- ChecklistManager

Ids(ts) == {ts[i].id : i \in 1..Len(ts)}
HasId(ts, id) == \E i \in 1..Len(ts) : ts[i].id = id

\* The loop of getNextId: the largest id, starting from maxId = 0.
RECURSIVE MaxId(_, _)
MaxId(ts, maxId) ==
    IF ts = <<>> THEN maxId
    ELSE MaxId(Tail(ts), IF Head(ts).id > maxId THEN Head(ts).id ELSE maxId)

\* A next id that is the largest id itself.
getNextIdNoIncrement(ts) == {MaxId(ts, 0)}

\* ChecklistManager::getNextId(): the values maxId + 1 may have.
getNextId(ts) == IntSucc(MaxId(ts, 0))

\* An add that puts the new task first.
addTaskFront(ts, nid, desc) == <<Task(nid, desc)>> \o ts

\* ChecklistManager::addTask(description) with nextId = nid: the tasks
\* after (nextId++ is IntSucc(nid)).
addTask(ts, nid, desc) == Append(ts, Task(nid, desc))

\* A remove that reports success without looking at what it found.
removeTaskNoCheck(ts, id) ==
    [tasks |-> SelectSeq(ts, LAMBDA t : t.id # id),
     msg |-> "Task removed successfully!"]

\* A remove that erases the first task with the id only.
removeTaskFirst(ts, id) ==
    IF HasId(ts, id)
    THEN LET it == CHOOSE i \in 1..Len(ts) :
                      ts[i].id = id /\ \A j \in 1..(i - 1) : ts[j].id # id
         IN  [tasks |-> SubSeq(ts, 1, it - 1) \o SubSeq(ts, it + 1, Len(ts)),
              msg |-> "Task removed successfully!"]
    ELSE [tasks |-> ts, msg |-> "Task not found!"]

\* ChecklistManager::removeTask(id): std::remove_if and erase keep the
\* other tasks in order.
removeTask(ts, id) ==
    LET kept == SelectSeq(ts, LAMBDA t : t.id # id)
    IN  IF Len(kept) # Len(ts)
        THEN [tasks |-> kept, msg |-> "Task removed successfully!"]
        ELSE [tasks |-> ts, msg |-> "Task not found!"]

\* A toggle that flips every task with the id.
toggleTaskAll(ts, id) ==
    IF HasId(ts, id)
    THEN [tasks |-> [i \in 1..Len(ts) |->
                       IF ts[i].id = id THEN toggleComplete(ts[i]) ELSE ts[i]],
          msg |-> "Task status toggled!"]
    ELSE [tasks |-> ts, msg |-> "Task not found!"]

\* ChecklistManager::toggleTask(id): std::find_if gives the first match.
toggleTask(ts, id) ==
    IF HasId(ts, id)
    THEN LET it == CHOOSE i \in 1..Len(ts) :
                      ts[i].id = id /\ \A j \in 1..(i - 1) : ts[j].id # id
         IN  [tasks |-> [ts EXCEPT ![it] = toggleComplete(ts[it])],
              msg |-> "Task status toggled!"]
    ELSE [tasks |-> ts, msg |-> "Task not found!"]

\* What the destructor writes to std::cerr when saveTasks throws, and what
\* main writes when an exception reaches it.
SaveError == "Error saving tasks: Unable to open file for writing"
MainError == "Error: Unable to open file for writing"

\* A destructor that lets the exception of saveTasks go on to main.
destroyManagerNoCatch(f, canWrite, ts, e) ==
    LET r == saveTasks(f, canWrite, ts)
    IN  [file |-> r.file, err |-> e, escaped |-> r.threw]

\* A destructor that catches what saveTasks throws and keeps quiet.
destroyManagerSilent(f, canWrite, ts, e) ==
    LET r == saveTasks(f, canWrite, ts)
    IN  [file |-> r.file, err |-> e, escaped |-> FALSE]

\* ChecklistManager::~ChecklistManager(): saveTasks in a try block; what
\* it throws is reported on std::cerr (e is what std::cerr holds) and goes
\* no further.
destroyManager(f, canWrite, ts, e) ==
    LET r == saveTasks(f, canWrite, ts)
    IN  [file |-> r.file,
         err |-> IF r.threw THEN Append(e, SaveError) ELSE e,
         escaped |-> FALSE]

\* main: 1 when an exception reached its catch block, else 0.
mainReturn(escaped) == IF escaped THEN 1 ELSE 0

\* ChecklistManager::listTasks(): what it prints; the tasks stay as they
\* are (the method is const).
listTasks(ts) ==
    IF ts = <<>>
    THEN [msgs |-> <<"No tasks in the checklist.">>, listing |-> <<>>]
    ELSE [msgs |-> <<"=== CHECKLIST ===", "=================">>,
          listing |-> [i \in 1..Len(ts) |->
                         [id |-> ts[i].id,
                          mark |-> IF ts[i].completed THEN "[X] " ELSE "[ ] ",
                          description |-> ts[i].description]]]

\* ---------------------------------------------------------------- state

VARIABLES
    file,       \* checklist.txt
    writable,   \* whether checklist.txt could be opened for writing
    pc,         \* where main is: "start", "menu" (in Menu::run), "exited"
    tasks,      \* ChecklistManager::tasks
    nextId,     \* ChecklistManager::nextId
    cin,        \* std::cin
    choice,     \* Menu::run's choice: [set |-> it holds a value, v |-> it]
    input,      \* Menu::run's input
    out,        \* what the last step wrote to std::cout
    err,        \* what was written to std::cerr
    exitCode,   \* what main returned, -1 while it runs
    loaded,     \* history: the tasks loadTasks returned
    calls,      \* history: the commands run, each with the store before it
    typed,      \* history: the number of lines typed on the terminal
    started,    \* history: checklist.txt as it was when the run started
    earlier     \* history: the runs of the program that have ended

vars == <<file, writable, pc, tasks, nextId, cin, choice, input, out, err,
          exitCode, loaded, calls, typed, started, earlier>>

\* ---------------------------------------------------------------- bounds

\* The lines typed on the terminal, the commands run (both over all the
\* runs of the program) and the runs of the program.
MaxTyped == 3
MaxCalls == 3
MaxRuns == 2

\* The text of a line: the words joined by single spaces, and a new line.
RECURSIVE Join(_)
Join(ws) ==
    IF ws = <<>> THEN <<>>
    ELSE IF Len(ws) = 1 THEN Head(ws)
    ELSE Head(ws) \o <<" ">> \o Join(Tail(ws))
Line(ws) == Join(ws) \o <<"\n">>

\* The lines the user may type: a choice alone, a choice with its argument
\* on the same line, an id, a description, text that is no number.
TypedLines ==
    { Line(<<<<"1">>>>), Line(<<<<"2">>>>), Line(<<<<"3">>>>),
      Line(<<<<"4">>>>), Line(<<<<"5">>>>), Line(<<<<"7">>>>),
      Line(<<<<"1">>, <<"a">>, <<"b">>>>),
      Line(<<<<"2">>, <<"1">>>>), Line(<<<<"2">>, <<"2">>>>),
      Line(<<<<"3">>, <<"1">>>>),
      Line(<<<<"x">>>>) }

\* The files the program may start on: none, an empty one, well-formed
\* ones (ids in and out of order, a repeated id, an id that is not
\* positive, the largest int), one with a line that is no record and one
\* with an empty line.
InitFiles ==
    { NoFile,
      FileOf(<<>>),
      FileOf(Line(<<<<"1">>, <<"0">>, <<"a">>>>)
             \o Line(<<<<"2">>, <<"1">>, <<"b">>, <<"c">>>>)),
      FileOf(Line(<<<<"3">>, <<"0">>, <<"a">>>>)
             \o Line(<<<<"7">>, <<"0">>, <<"b">>>>)
             \o Line(<<<<"1">>, <<"1">>, <<"c">>>>)),
      FileOf(Line(<<<<"1">>, <<"0">>, <<"a">>>>)
             \o Line(<<<<"1">>, <<"0">>, <<"b">>>>)),
      FileOf(Line(<<<<"-", "3">>, <<"1">>, <<"a">>>>)),
      FileOf(Line(<<IntToStr(IntMax), <<"0">>, <<"a">>>>)),
      FileOf(Line(<<<<"2">>, <<"0">>, <<"a">>>>)
             \o Line(<<<<"x">>>>)
             \o Line(<<<<"3">>, <<"0">>, <<"b">>>>)),
      FileOf(Line(<<<<"1">>, <<"0">>, <<"a">>>>)
             \o <<"\n">>
             \o Line(<<<<"2">>, <<"1">>, <<"b">>>>)) }

\* ----------------------------------------------------------------- Menu

NoOutput == [msgs |-> <<>>, listing |-> <<>>]
Say(ms) == [msgs |-> ms, listing |-> <<>>]

\* What one round of the loop of Menu::run reads: `std::cin >> choice;
\* std::cin.ignore();` and then what the case reads.  A set of records,
\* one for each value an indeterminate int may have: c is the value the
\* switch sees, read says that `std::cin >> choice` read a number (it
\* stored one and did not set failbit), choice and input are the
\* variables after, id the id read in case 2 and 3, s the stream after,
\* blocked says that the round waits for the terminal.
ReadCommand ==
    LET rc == ExtractInt(cin, 0)
        s1 == Ignore(rc.s).s
        ch == IF rc.stored THEN [set |-> TRUE, v |-> rc.val] ELSE choice
        cs == IF ch.set THEN {ch.v} ELSE AnyInt
        Cmd(c, s, in, id, b) ==
            [c |-> c, read |-> rc.stored /\ ~rc.s.fail, choice |-> ch,
             s |-> s, input |-> in, id |-> id, blocked |-> b]
        For(c) ==
            IF c = 1
            THEN LET rl == GetLine(s1, input)
                 IN  {Cmd(c, rl.s, rl.val, 0, rl.blocked)}
            ELSE IF c \in {2, 3}
            THEN LET ri == ExtractInt(s1, 0)
                 IN  {Cmd(c, ri.s, input, id, ri.blocked) :
                        id \in IF ri.stored \/ ri.blocked THEN {ri.val}
                               ELSE AnyInt}
            ELSE {Cmd(c, s1, input, 0, FALSE)}
    IN  IF rc.blocked THEN {Cmd(0, cin, input, 0, TRUE)}
        ELSE UNION {For(c) : c \in cs}

\* The commands run so far, those of the runs that have ended included.
RECURSIVE CallsOf(_)
CallsOf(runs) ==
    IF runs = <<>> THEN 0 ELSE Len(Head(runs).calls) + CallsOf(Tail(runs))
CallsSoFar == CallsOf(earlier) + Len(calls)

\* The round can run: main is in the loop and no read of it waits.
Ready(cmd) == pc = "menu" /\ ~cmd.blocked /\ CallsSoFar < MaxCalls

\* The record of a command in the history.
Call(cmd) ==
    [c |-> cmd.c, read |-> cmd.read, id |-> cmd.id, input |-> cmd.input,
     tasks |-> tasks, nextId |-> nextId]

\* What every round does whatever the choice is.
Round(cmd) ==
    /\ cin' = cmd.s
    /\ choice' = cmd.choice
    /\ input' = cmd.input
    /\ calls' = Append(calls, Call(cmd))
    /\ UNCHANGED <<loaded, typed, started, earlier>>

\* ---------------------------------------------------------------- steps

\* A construction that goes on with the nextId of the run before.
ConstructResuming ==
    /\ pc = "start"
    /\ tasks' = loadTasks(file)
    /\ nextId' \in IF earlier = <<>> THEN getNextId(tasks')
                   ELSE {earlier[Len(earlier)].nextId}
    /\ loaded' = tasks'
    /\ pc' = "menu"
    /\ UNCHANGED <<file, writable, cin, choice, input, out, err, exitCode,
                   calls, typed, started, earlier>>

\* Menu::Menu and ChecklistManager::ChecklistManager: load, then nextId.
Construct ==
    /\ pc = "start"
    /\ tasks' = loadTasks(file)
    /\ nextId' \in getNextId(tasks')
    /\ loaded' = tasks'
    /\ pc' = "menu"
    /\ UNCHANGED <<file, writable, cin, choice, input, out, err, exitCode,
                   calls, typed, started, earlier>>

\* The user types a line while the program waits for input.
TypeLine ==
    /\ pc = "menu"
    /\ ~cin.closed
    /\ typed < MaxTyped
    /\ \A cmd \in ReadCommand : cmd.blocked
    /\ \E l \in TypedLines : cin' = [cin EXCEPT !.buf = cin.buf \o l]
    /\ typed' = typed + 1
    /\ UNCHANGED <<file, writable, pc, tasks, nextId, choice, input, out,
                   err, exitCode, loaded, calls, started, earlier>>

\* The terminal signals the end of the input while the program waits.
EndInput ==
    /\ pc = "menu"
    /\ ~cin.closed
    /\ \A cmd \in ReadCommand : cmd.blocked
    /\ cin' = [cin EXCEPT !.closed = TRUE]
    /\ UNCHANGED <<file, writable, pc, tasks, nextId, choice, input, out,
                   err, exitCode, loaded, calls, typed, started, earlier>>

\* An add that writes the tasks to the file at once.
CmdAddSaving ==
    \E cmd \in ReadCommand :
        /\ Ready(cmd)
        /\ cmd.c = 1
        /\ tasks' = addTask(tasks, nextId, cmd.input)
        /\ nextId' \in IntSucc(nextId)
        /\ file' = saveTasks(file, writable, tasks').file
        /\ out' = Say(<<"Choice: ", "Enter task description: ",
                        "Task added successfully!">>)
        /\ Round(cmd)
        /\ UNCHANGED <<writable, pc, err, exitCode>>

\* case 1: read a line, addTask(input).
CmdAdd ==
    \E cmd \in ReadCommand :
        /\ Ready(cmd)
        /\ cmd.c = 1
        /\ tasks' = addTask(tasks, nextId, cmd.input)
        /\ nextId' \in IntSucc(nextId)
        /\ out' = Say(<<"Choice: ", "Enter task description: ",
                        "Task added successfully!">>)
        /\ Round(cmd)
        /\ UNCHANGED <<file, writable, pc, err, exitCode>>

\* case 2: read an id, removeTask(id).
CmdRemove ==
    \E cmd \in ReadCommand :
        /\ Ready(cmd)
        /\ cmd.c = 2
        /\ LET r == removeTask(tasks, cmd.id)
           IN  /\ tasks' = r.tasks
               /\ out' = Say(<<"Choice: ", "Enter task ID to remove: ",
                               r.msg>>)
        /\ Round(cmd)
        /\ UNCHANGED <<file, writable, pc, nextId, err, exitCode>>

\* case 3: read an id, toggleTask(id).
CmdToggle ==
    \E cmd \in ReadCommand :
        /\ Ready(cmd)
        /\ cmd.c = 3
        /\ LET r == toggleTask(tasks, cmd.id)
           IN  /\ tasks' = r.tasks
               /\ out' = Say(<<"Choice: ", "Enter task ID to toggle: ",
                               r.msg>>)
        /\ Round(cmd)
        /\ UNCHANGED <<file, writable, pc, nextId, err, exitCode>>

\* case 4: listTasks().
CmdList ==
    \E cmd \in ReadCommand :
        /\ Ready(cmd)
        /\ cmd.c = 4
        /\ LET l == listTasks(tasks)
           IN  out' = [msgs |-> <<"Choice: ">> \o l.msgs,
                       listing |-> l.listing]
        /\ Round(cmd)
        /\ UNCHANGED <<file, writable, pc, tasks, nextId, err, exitCode>>

\* default: the loop goes on.
CmdInvalid ==
    \E cmd \in ReadCommand :
        /\ Ready(cmd)
        /\ cmd.c \notin 1..5
        /\ out' = Say(<<"Choice: ", "Invalid choice!">>)
        /\ Round(cmd)
        /\ UNCHANGED <<file, writable, pc, tasks, nextId, err, exitCode>>

\* case 5: run returns, main destroys the Menu and with it the
\* ChecklistManager, whose destructor saves the tasks and catches what
\* saveTasks throws; main returns 0 unless an exception reaches it.
\* Whether the file can be opened for writing is up to the file system at
\* that moment.
CmdExit ==
    \E cmd \in ReadCommand :
        /\ Ready(cmd)
        /\ cmd.c = 5
        /\ writable' \in BOOLEAN
        /\ LET d == destroyManager(file, writable', tasks, err)
           IN  /\ file' = d.file
               /\ err' = IF d.escaped THEN Append(d.err, MainError)
                         ELSE d.err
               /\ exitCode' = mainReturn(d.escaped)
        /\ out' = Say(<<"Choice: ", "Saving and exiting...">>)
        /\ pc' = "exited"
        /\ Round(cmd)
        /\ UNCHANGED <<tasks, nextId>>

\* The state in which main starts, on one of the given files.
Start(files) ==
    /\ file \in files
    /\ writable = TRUE
    /\ pc = "start"
    /\ tasks = <<>>
    /\ nextId = 1
    /\ cin = OpenStream(<<>>, FALSE)
    /\ choice = [set |-> FALSE, v |-> 0]
    /\ input = <<>>
    /\ out = NoOutput
    /\ err = <<>>
    /\ exitCode = -1
    /\ loaded = <<>>
    /\ calls = <<>>
    /\ typed = 0
    /\ started = file
    /\ earlier = <<>>

Init == Start(InitFiles)

Next ==
    \/ Construct
    \/ TypeLine
    \/ EndInput
    \/ CmdAdd
    \/ CmdRemove
    \/ CmdToggle
    \/ CmdList
    \/ CmdInvalid
    \/ CmdExit

Spec == Init /\ [][Next]_vars

\* ------------------------------------------------- one run after another

\* The program is started again after a run that has ended and saved its
\* tasks: a new process on the file as that run left it, with a new
\* terminal.  The run that has ended goes to the history: its commands,
\* and the tasks and the nextId it held at the end.
Restart ==
    /\ pc = "exited"
    /\ writable
    /\ Len(earlier) + 1 < MaxRuns
    /\ earlier' = Append(earlier, [calls |-> calls, tasks |-> tasks,
                                   nextId |-> nextId])
    /\ started' = file
    /\ pc' = "start"
    /\ writable' = TRUE
    /\ tasks' = <<>>
    /\ nextId' = 1
    /\ cin' = OpenStream(<<>>, FALSE)
    /\ choice' = [set |-> FALSE, v |-> 0]
    /\ input' = <<>>
    /\ out' = NoOutput
    /\ err' = <<>>
    /\ exitCode' = -1
    /\ loaded' = <<>>
    /\ calls' = <<>>
    /\ UNCHANGED <<file, typed>>

\* The files the first run may start on: ids without a gap, and an id
\* with a gap below it.
RunFiles ==
    { FileOf(Line(<<<<"1">>, <<"0">>, <<"a">>>>)
             \o Line(<<<<"2">>, <<"1">>, <<"b">>, <<"c">>>>)),
      FileOf(Line(<<<<"2">>, <<"0">>, <<"a">>>>)) }

InitRuns == Start(RunFiles)

NextRuns ==
    \/ Next
    \/ Restart

SpecRuns == InitRuns /\ [][NextRuns]_vars

\* ------------------------------------------- the file format on its own

\* A second specification applies saveTasks and loadTasks to inputs drawn
\* from bounded sets: pc = "save" holds tasks to be written and read back
\* ("reload", then "reloaded"), pc = "load" holds a file to be read
\* ("loaded").  The result of the read is in loaded.

MaxSaved == 2      \* tasks in a sequence that is saved and read back
MaxFileLen == 4    \* characters in a file drawn character by character
MaxLines == 2      \* lines in a file drawn line by line

\* All sequences over S of length at most n.
RECURSIVE SeqsUpTo(_, _)
SeqsUpTo(S, n) ==
    IF n = 0 THEN {<<>>}
    ELSE LET shorter == SeqsUpTo(S, n - 1)
         IN  shorter \cup {Append(q, x) : q \in shorter, x \in S}

\* Ids and descriptions of the tasks that are saved: an id below zero,
\* zero, one of two digits, the largest; descriptions that are empty,
\* start with a space, hold a space, look like a record.
SavedIds == {-3, 0, 12, IntMax}
SavedDescriptions ==
    { <<>>, <<"a">>, <<" ", "a">>, <<"a", " ", "b">>, <<"1", " ", "0">> }
SavedTasks ==
    { [id |-> i, completed |-> c, description |-> d] :
        i \in SavedIds, c \in BOOLEAN, d \in SavedDescriptions }

\* Files drawn character by character.
FileChars == {"1", "0", "-", " ", "\n", "a"}
ShortFiles == {FileOf(text) : text \in SeqsUpTo(FileChars, MaxFileLen)}

\* Files drawn line by line: records, a record without description and
\* without the space before it, an empty line, lines that are no record;
\* the last line may lack its new line.
FileLines ==
    { Line(<<<<"1">>, <<"0">>, <<"a">>>>),
      Line(<<<<"2">>, <<"1">>, <<"b">>, <<"c">>>>),
      Line(<<<<"3">>, <<"0">>, <<>>>>),
      Line(<<<<"4">>, <<"0">>>>),
      Line(<<<<"x">>>>),
      Line(<<<<"5">>, <<"y">>, <<"a">>>>),
      <<"\n">>,
      Join(<<<<"6">>, <<"1">>>>) }
LineFiles == {FileOf(Concat(ls)) : ls \in SeqsUpTo(FileLines, MaxLines)}

InitFile ==
    /\ \/ /\ pc = "save"
          /\ tasks \in SeqsUpTo(SavedTasks, MaxSaved)
          /\ file \in {NoFile, FileOf(Line(<<<<"9">>, <<"0">>, <<"z">>>>))}
       \/ /\ pc = "load"
          /\ tasks = <<>>
          /\ file \in ShortFiles \cup LineFiles \cup {NoFile}
    /\ writable = TRUE
    /\ nextId = 1
    /\ cin = OpenStream(<<>>, FALSE)
    /\ choice = [set |-> FALSE, v |-> 0]
    /\ input = <<>>
    /\ out = NoOutput
    /\ err = <<>>
    /\ exitCode = -1
    /\ loaded = <<>>
    /\ calls = <<>>
    /\ typed = 0
    /\ started = file
    /\ earlier = <<>>

\* fileHandler->saveTasks(tasks) on a file that can be written.
SaveFile ==
    /\ pc = "save"
    /\ file' = saveTasks(file, writable, tasks).file
    /\ pc' = "reload"
    /\ UNCHANGED <<writable, tasks, nextId, cin, choice, input, out, err,
                   exitCode, loaded, calls, typed, started, earlier>>

\* fileHandler->loadTasks()
LoadFile ==
    /\ pc \in {"reload", "load"}
    /\ loaded' = loadTasks(file)
    /\ pc' = IF pc = "reload" THEN "reloaded" ELSE "loaded"
    /\ UNCHANGED <<file, writable, tasks, nextId, cin, choice, input, out,
                   err, exitCode, calls, typed, started, earlier>>

NextFile == SaveFile \/ LoadFile

SpecFile == InitFile /\ [][NextFile]_vars

\* --------------------------------------------------------------- claims

\* C1. Round trip: tasks whose descriptions hold no new line (empty ones
\* and ones with leading or inner spaces included), written by saveTasks
\* and read back by loadTasks from the same file, come back as a sequence
\* of the same length with the same ids, the same completion flags and
\* the same descriptions in the same order.
C1_RoundTrip ==
    pc = "reloaded" =>
        /\ Len(loaded) = Len(tasks)
        /\ \A i \in 1..Len(tasks) :
              /\ loaded[i].id = tasks[i].id
              /\ loaded[i].completed = tasks[i].completed
              /\ loaded[i].description = tasks[i].description

\* Two tasks were saved and read back, the first with an empty
\* description, the second completed, with a description that starts with
\* a space.
C1_Witness ==
    /\ pc = "reloaded"
    /\ Len(tasks) = 2
    /\ tasks[1].description = <<>>
    /\ tasks[2].description = <<" ", "a">>
    /\ tasks[2].completed
    /\ loaded = tasks

\* The lines of a text: what stands between new lines; text after the
\* last new line is a line too.
RECURSIVE SplitLines(_)
SplitLines(text) ==
    IF text = <<>> THEN <<>>
    ELSE LET n == FirstNotIn(text, {text[i] : i \in 1..Len(text)} \ {"\n"}, 1)
         IN  <<SubSeq(text, 1, n - 1)>> \o SplitLines(Drop(text, n))

\* w is the text of an int: an optional '-' and digits, within range.
IsIntText(w) ==
    /\ w # <<>>
    /\ \A i \in 1..Len(w) : w[i] \in Digit \/ (i = 1 /\ w[i] = "-")
    /\ LET r == ExtractInt(OpenStream(w, TRUE), 0)
       IN  r.stored /\ ~r.s.fail
IntOfText(w) == ExtractInt(OpenStream(w, TRUE), 0).val

\* The two spaces that separate the fields of a record.
FirstSpace(l) == FirstNotIn(l, {l[i] : i \in 1..Len(l)} \ {" "}, 1)
SecondSpace(l) ==
    FirstNotIn(l, {l[i] : i \in 1..Len(l)} \ {" "}, FirstSpace(l) + 1)

\* l has the form `<int> <int> <text>`.
IsRecord(l) ==
    /\ SecondSpace(l) <= Len(l)
    /\ IsIntText(SubSeq(l, 1, FirstSpace(l) - 1))
    /\ IsIntText(SubSeq(l, FirstSpace(l) + 1, SecondSpace(l) - 1))

\* The task a record encodes.
RecordTask(l) ==
    [id |-> IntOfText(SubSeq(l, 1, FirstSpace(l) - 1)),
     completed |->
        IntOfText(SubSeq(l, FirstSpace(l) + 1, SecondSpace(l) - 1)) # 0,
     description |-> Drop(l, SecondSpace(l))]

\* The tasks of the lines before the first line that is no record.
RECURSIVE RecordsBeforeMalformed(_)
RecordsBeforeMalformed(ls) ==
    IF ls = <<>> \/ ~IsRecord(Head(ls)) THEN <<>>
    ELSE <<RecordTask(Head(ls))>> \o RecordsBeforeMalformed(Tail(ls))

\* C8. Malformed-line truncation on load: for every file content
\* loadTasks returns exactly the tasks encoded by the lines that precede
\* the first line not of the form `<int> <int> <text>`, one task a line,
\* in file order; that line and the lines after it contribute nothing.
C8_LoadStopsAtFirstMalformedLine ==
    (pc = "loaded" /\ file.exists) =>
        loaded = RecordsBeforeMalformed(SplitLines(file.content))

\* The line the file format asks for: `<id> <0|1> <description>`.
RecordLine(t) ==
    IntToStr(t.id) \o <<" ", IF t.completed THEN "1" ELSE "0", " ">>
        \o t.description

\* C2. Final save on exit: after any sequence of commands followed by
\* choice 5, with a writable file, the file holds exactly one line
\* `<id> <0|1> <description>` for each task in memory at that moment, in
\* their order, each ended by a new line, and nothing else.
C2_FinalSave ==
    (pc = "exited" /\ writable) =>
        /\ file.exists
        /\ file.content = <<>> \/ file.content[Len(file.content)] = "\n"
        /\ SplitLines(file.content) =
              [i \in 1..Len(tasks) |-> RecordLine(tasks[i])]

\* The program has exited after an add and a remove or toggle that
\* changed the loaded tasks, and the file it started on was rewritten.
C2_Witness ==
    /\ pc = "exited"
    /\ writable
    /\ Len(calls) >= 3
    /\ tasks # <<>>
    /\ tasks # loaded
    /\ loaded # <<>>
    /\ \E k \in 1..Len(calls) : calls[k].c = 1
    /\ file.content # <<>>

\* The ids a sequence of tasks holds are pairwise distinct.
DistinctIds(ts) ==
    \A i, j \in 1..Len(ts) : ts[i].id = ts[j].id => i = j

\* The calls of addTask so far, as indexes of the history; the id a call
\* of addTask handed out is nextId before it.
AddCalls == {k \in 1..Len(calls) : calls[k].c = 1}
HandedOut(k) == calls[k].nextId

\* C3. Ids are not reused within one store instance: starting from a
\* loaded file whose ids are pairwise distinct, no two tasks in the store
\* ever share an id, and every id addTask hands out is strictly greater
\* than every id loaded and every id handed out before.
C3_IdsNotReused ==
    (pc # "start" /\ DistinctIds(loaded)) =>
        /\ DistinctIds(tasks)
        /\ \A k \in AddCalls :
              /\ \A i \in Ids(loaded) : HandedOut(k) > i
              /\ \A j \in AddCalls : j < k => HandedOut(k) > HandedOut(j)

\* What does hold of C3: the same, for the files whose ids are all below
\* the largest int (far enough below it that no nextId++ of the run
\* overflows either).
C3_BelowIntMax ==
    (pc # "start" /\ DistinctIds(loaded) /\ MaxId(loaded, 0) < IntMax) =>
        /\ DistinctIds(tasks)
        /\ \A k \in AddCalls :
              /\ \A i \in Ids(loaded) : HandedOut(k) > i
              /\ \A j \in AddCalls : j < k => HandedOut(k) > HandedOut(j)

\* The largest of a non-empty set of ints.
Largest(S) == CHOOSE m \in S : \A i \in S : i <= m

\* C4. nextId at construction: for every set of loaded ids the first
\* addTask after construction hands out the largest loaded id plus one,
\* and 1 when nothing was loaded.
C4_FirstIdIsMaxPlusOne ==
    \A k \in AddCalls :
        (\A j \in AddCalls : k <= j) =>
            IF loaded = <<>> THEN HandedOut(k) = 1
            ELSE /\ HandedOut(k) > Largest(Ids(loaded))
                 /\ HandedOut(k) - 1 = Largest(Ids(loaded))

\* What does hold of C4: below the largest int the first id handed out is
\* one more than the largest of 0 and the loaded ids.
C4_MaxOfZeroAndLoaded ==
    \A k \in AddCalls :
        ((\A j \in AddCalls : k <= j) /\ MaxId(loaded, 0) < IntMax) =>
            HandedOut(k) = Largest(Ids(loaded) \cup {0}) + 1

\* C5. Id monotonicity: on an initially empty store N calls of addTask in
\* a row give N tasks that sit in call order with the ids 1, 2, ..., N,
\* each incomplete and with the description it was given.
C5_IdsCountUp ==
    (pc # "start" /\ loaded = <<>> /\ \A k \in 1..Len(calls) : calls[k].c = 1)
        => tasks = [k \in 1..Len(calls) |->
                      [id |-> k, completed |-> FALSE,
                       description |-> calls[k].input]]

\* Three tasks were added in a row to a store that was empty at first,
\* not all with the same description.
C5_Witness ==
    /\ loaded = <<>>
    /\ Len(calls) = 3
    /\ \A k \in 1..3 : calls[k].c = 1
    /\ calls[1].input # calls[2].input
    /\ Len(tasks) = 3

\* The last command, when there is one.
LastCall == calls[Len(calls)]

\* C6. Not-found reporting: removeTask(id) or toggleTask(id) with an id
\* no task has reports "Task not found!" and leaves the tasks (members,
\* order, descriptions, completion flags) and nextId as they were.
C6_NotFound ==
    (calls # <<>> /\ LastCall.c \in {2, 3}
                 /\ ~HasId(LastCall.tasks, LastCall.id)) =>
        /\ out.msgs[Len(out.msgs)] = "Task not found!"
        /\ tasks = LastCall.tasks
        /\ nextId = LastCall.nextId

\* A remove of an id that no task of a non-empty store has.
C6_Witness ==
    /\ calls # <<>>
    /\ LastCall.c = 2
    /\ LastCall.tasks # <<>>
    /\ ~HasId(LastCall.tasks, LastCall.id)
    /\ out.msgs[Len(out.msgs)] = "Task not found!"

\* The last two commands were toggleTask(id) twice with an id present.
ToggledTwice ==
    /\ Len(calls) >= 2
    /\ LastCall.c = 3
    /\ calls[Len(calls) - 1].c = 3
    /\ LastCall.id = calls[Len(calls) - 1].id
    /\ HasId(calls[Len(calls) - 1].tasks, LastCall.id)

\* C7. Toggle is an involution: two calls of toggleTask(id) in a row with
\* an id present bring the store back to what it was before the first.
C7_ToggleTwice ==
    ToggledTwice =>
        /\ tasks = calls[Len(calls) - 1].tasks
        /\ nextId = calls[Len(calls) - 1].nextId

\* A task was toggled twice, and after the first toggle the store
\* differed from the one before.
C7_Witness ==
    /\ ToggledTwice
    /\ LastCall.tasks # calls[Len(calls) - 1].tasks
    /\ tasks = calls[Len(calls) - 1].tasks

\* C9. Missing-file load: constructing the store on a file that cannot
\* be opened for reading is no error; the store is empty and nextId is 1.
C9_MissingFile ==
    (pc = "menu" /\ calls = <<>> /\ ~file.exists) =>
        /\ tasks = <<>>
        /\ nextId = 1
        /\ err = <<>>
        /\ exitCode = -1

\* The store was constructed on a missing file and waits in the menu.
C9_Witness ==
    /\ pc = "menu"
    /\ calls = <<>>
    /\ ~file.exists
    /\ nextId = 1

\* C10, as claimed. The process ends with exit code 0 on normal exit and
\* with exit code 1 when the file cannot be written.
C10_ExitCodeOneWhenUnwritable ==
    pc = "exited" => exitCode = (IF writable THEN 0 ELSE 1)

\* C10, amended. The process ends with exit code 0 after choice 5 whether
\* or not the file can be written; when it cannot, the failure is reported
\* on the error stream as "Error saving tasks: ..." and the file is left
\* as it was.
C10_ExitCodeZero ==
    pc = "exited" =>
        /\ exitCode = 0
        /\ writable => err = <<>>
        /\ ~writable =>
              /\ err = <<SaveError>>
              /\ file \in InitFiles

\* The program exited while the file could not be written.
C10_Witness ==
    /\ pc = "exited"
    /\ ~writable
    /\ exitCode = 0
    /\ err # <<>>
    /\ tasks # loaded

\* C11. Best-effort flush: when the save at shutdown fails because the
\* file cannot be opened for writing, the error is caught in the
\* destructor of the store and reported on the error stream; it does not
\* reach main (whose catch block would report it as "Error: ..." and
\* return 1), and the process ends normally.
C11_SaveFailureCaught ==
    (calls # <<>> /\ LastCall.c = 5 /\ ~writable) =>
        /\ pc = "exited"
        /\ Len(err) = 1
        /\ err[1] = SaveError
        /\ \A i \in 1..Len(err) : err[i] # MainError
        /\ exitCode = mainReturn(FALSE)

\* The exit command was given with tasks in memory that differ from the
\* file, the save could not open the file, and the failure is on the
\* error stream.
C11_Witness ==
    /\ calls # <<>>
    /\ LastCall.c = 5
    /\ ~writable
    /\ tasks # <<>>
    /\ file # saveTasks(file, TRUE, tasks).file
    /\ err = <<SaveError>>

\* The last round of the loop read one of the choices 1 to 5 at its
\* prompt: `std::cin >> choice` read a number, and it is one of them.
ReadChoiceOneToFive == LastCall.read /\ LastCall.c \in 1..5

\* C12. Invalid choice: at the Choice prompt every input other than 1, 2,
\* 3, 4 or 5 (a number outside 1..5, text that is no number, the end of
\* the input) is reported as "Invalid choice!", leaves the tasks and
\* nextId as they were, and the loop goes on.
C12_InvalidChoice ==
    (calls # <<>> /\ ~ReadChoiceOneToFive) =>
        /\ out.msgs[Len(out.msgs)] = "Invalid choice!"
        /\ tasks = LastCall.tasks
        /\ nextId = LastCall.nextId
        /\ pc = "menu"

\* What does hold of C12: whenever the value the switch sees is none of
\* 1 to 5, the round reports "Invalid choice!", leaves the tasks and
\* nextId as they were, and the loop goes on.
C12_ValueOutsideOneToFive ==
    (calls # <<>> /\ LastCall.c \notin 1..5) =>
        /\ out.msgs[Len(out.msgs)] = "Invalid choice!"
        /\ tasks = LastCall.tasks
        /\ nextId = LastCall.nextId
        /\ pc = "menu"

\* C12 fails without any indeterminate value too: the input ended after
\* an add, choice kept the 1 it held, and the round added a task.
C12_AddAfterEndOfInput ==
    /\ Len(calls) >= 2
    /\ calls[Len(calls) - 1].read
    /\ calls[Len(calls) - 1].c = 1
    /\ ~LastCall.read
    /\ LastCall.c = 1
    /\ cin.eof
    /\ Len(tasks) = Len(LastCall.tasks) + 1

\* C13. Saving happens only at shutdown: addTask, removeTask, toggleTask
\* and listTasks leave the file alone; in every state from the start of
\* the run to the exit command the file is what it was when the run
\* started.
C13_FileUntouchedUntilExit ==
    pc \in {"start", "menu"} => file = started

\* An add, a remove and a toggle have changed the tasks in memory, and
\* the file that exists is still what it was.
C13_Witness ==
    /\ pc = "menu"
    /\ {calls[k].c : k \in 1..Len(calls)} = {1, 2, 3}
    /\ \A k \in 1..Len(calls) :
          calls[k].c \in {2, 3} => HasId(calls[k].tasks, calls[k].id)
    /\ tasks # loaded
    /\ file.exists
    /\ file = started
    /\ file # saveTasks(file, TRUE, tasks).file

\* The tasks of ts whose id is not id, in the order they have in ts.
RECURSIVE Others(_, _)
Others(ts, id) ==
    IF ts = <<>> THEN <<>>
    ELSE IF Head(ts).id = id THEN Others(Tail(ts), id)
    ELSE <<Head(ts)>> \o Others(Tail(ts), id)

\* C14. removeTask(id) with at least one task of that id removes every
\* task of that id, reports success, keeps every other task as it was
\* and in its order, and leaves nextId as it was.
C14_RemoveAllMatches ==
    (calls # <<>> /\ LastCall.c = 2 /\ HasId(LastCall.tasks, LastCall.id)) =>
        /\ out.msgs[Len(out.msgs)] = "Task removed successfully!"
        /\ ~HasId(tasks, LastCall.id)
        /\ tasks = Others(LastCall.tasks, LastCall.id)
        /\ nextId = LastCall.nextId

\* A remove of an id that two tasks of the store had, with a task of
\* another id after them: both are gone, the other task has stayed.
C14_Witness ==
    /\ calls # <<>>
    /\ LastCall.c = 2
    /\ Len(LastCall.tasks) = 3
    /\ LastCall.tasks[1].id = LastCall.id
    /\ LastCall.tasks[2].id = LastCall.id
    /\ tasks = <<LastCall.tasks[3]>>
    /\ out.msgs[Len(out.msgs)] = "Task removed successfully!"

\* The place of the first task of ts whose id is id (there is one).
FirstWithId(ts, id) ==
    CHOOSE i \in 1..Len(ts) :
        /\ ts[i].id = id
        /\ \A j \in 1..Len(ts) : ts[j].id = id => i <= j

\* C15. toggleTask(id) with at least one task of that id flips the
\* completion flag of exactly one task, the first in the sequence with
\* that id, and leaves every other task (later ones with the same id
\* too), the order, every description and nextId as they were.
C15_ToggleFirstMatch ==
    (calls # <<>> /\ LastCall.c = 3 /\ HasId(LastCall.tasks, LastCall.id)) =>
        LET before == LastCall.tasks
            first == FirstWithId(before, LastCall.id)
        IN  /\ out.msgs[Len(out.msgs)] = "Task status toggled!"
            /\ Len(tasks) = Len(before)
            /\ \A i \in 1..Len(before) :
                  /\ tasks[i].id = before[i].id
                  /\ tasks[i].description = before[i].description
                  /\ tasks[i].completed = (IF i = first
                                           THEN ~before[i].completed
                                           ELSE before[i].completed)
            /\ nextId = LastCall.nextId

\* A toggle of an id that two tasks of the store have: the first is now
\* completed, the second is not.
C15_Witness ==
    /\ calls # <<>>
    /\ LastCall.c = 3
    /\ Len(tasks) >= 2
    /\ tasks[1].id = LastCall.id
    /\ tasks[2].id = LastCall.id
    /\ ~LastCall.tasks[1].completed
    /\ tasks[1].completed
    /\ ~tasks[2].completed

\* A 5 was read at a Choice prompt of this run.
FiveRead == \E k \in 1..Len(calls) : calls[k].read /\ calls[k].c = 5

\* C16. The loop stops only through the exit command: Menu::run has
\* returned exactly when a 5 was read at a Choice prompt, and then the
\* process has saved and ended with exit code 0; as long as no 5 was
\* read at a Choice prompt (the input may have ended or delivered text
\* that is no number) the loop goes on and nothing is saved.
C16_ExitOnlyOnFive ==
    /\ pc = "exited" <=> FiveRead
    /\ pc = "exited" =>
          /\ exitCode = 0
          /\ writable => file = saveTasks(started, TRUE, tasks).file
    /\ (pc # "exited" /\ ~FiveRead) =>
          /\ pc \in {"start", "menu"}
          /\ exitCode = -1
          /\ file = started

\* What does hold of C16: in a run in which choice has been given a value
\* by a read, Menu::run has returned only after a 5 was read at a Choice
\* prompt; and whenever a 5 was read the program has ended with exit
\* code 0.
C16_ExitOnlyOnFiveOnceChoiceIsSet ==
    /\ (pc = "exited" /\ choice.set) => FiveRead
    /\ FiveRead => (pc = "exited" /\ exitCode = 0)
    /\ pc # "exited" => (exitCode = -1 /\ file = started)

\* The text has a line that is not of the form `<int> <int> <text>`.
HasMalformedLine(text) ==
    \E i \in 1..Len(SplitLines(text)) : ~IsRecord(SplitLines(text)[i])

\* No command of the run so far has changed the tasks.
NothingChanged == \A k \in 1..Len(calls) : calls[k].c \notin {1, 2, 3}

\* C17. Load truncation becomes permanent on exit: when the run started
\* on a file with a malformed line and has ended through choice 5 with
\* the file written, the session worked on the records before the
\* malformed line only and the file holds what the session made of them;
\* when the user changed nothing the file holds exactly the records
\* before the malformed line, so every record at or after that line is
\* gone.
C17_TruncationOnExit ==
    (pc = "exited" /\ writable /\ started.exists
                   /\ HasMalformedLine(started.content)) =>
        LET before == RecordsBeforeMalformed(SplitLines(started.content))
        IN  /\ loaded = before
            /\ file = saveTasks(started, TRUE, tasks).file
            /\ NothingChanged => file = saveTasks(started, TRUE, before).file

\* What does hold of C17: after choice 5 with the file written, the file
\* holds the tasks the session made of what loadTasks returned and
\* nothing else of the file the run started on; when the user changed
\* nothing it holds exactly what loadTasks returned.
C17_FileHoldsWhatWasLoaded ==
    (pc = "exited" /\ writable) =>
        /\ file = saveTasks(started, TRUE, tasks).file
        /\ NothingChanged => file = saveTasks(started, TRUE, loaded).file

\* The run before this one, when there is one.
Before == earlier[Len(earlier)]

\* The run before removed the task with the highest id, h, and h is
\* greater than every id that run left in the file it saved.
RemovedHighest(h) ==
    /\ \E k \in 1..Len(Before.calls) :
          /\ Before.calls[k].c = 2
          /\ Before.calls[k].id = h
          /\ HasId(Before.calls[k].tasks, h)
          /\ \A i \in Ids(Before.calls[k].tasks) : i <= h
    /\ \A i \in Ids(Before.tasks) : i < h

\* The ids the run before asked to remove.
AskedToRemove ==
    {Before.calls[k].id : k \in {j \in 1..Len(Before.calls) :
                                    Before.calls[j].c = 2}}

\* The first call of addTask of this run, when there is one.
FirstAdd == CHOOSE k \in AddCalls : \A j \in AddCalls : k <= j

\* C18, as claimed. Ids are not stable across runs: when a run removes
\* the task with the highest id and exits, the first addTask of the next
\* run on the same file assigns that removed id again.
C18_RemovedHighestIdAssignedAgain ==
    (earlier # <<>> /\ AddCalls # {}) =>
        \A h \in AskedToRemove :
            RemovedHighest(h) => HandedOut(FirstAdd) = h

\* C18, amended. nextId is not persisted: when a run removes the task
\* with the highest id h and exits, the first addTask of the next run on
\* the same file assigns the largest id left in the file plus one (1
\* when none above 0 is left), whatever nextId the run before had
\* reached; that is h again exactly when the largest id left is h - 1.
C18_FirstIdOfNextRun ==
    (earlier # <<>> /\ AddCalls # {}) =>
        \A h \in AskedToRemove :
            RemovedHighest(h) =>
                LET left == Largest(Ids(Before.tasks) \cup {0})
                IN  /\ loaded = Before.tasks
                    /\ HandedOut(FirstAdd) = left + 1
                    /\ HandedOut(FirstAdd) = h <=> left = h - 1

\* The run before removed task 2, the highest, and left task 1; the
\* first add of this run gave the id 2 to a new task, while the run
\* before had reached nextId 3.
C18_Witness ==
    /\ earlier # <<>>
    /\ AddCalls # {}
    /\ RemovedHighest(2)
    /\ Ids(Before.tasks) = {1}
    /\ Before.nextId = 3
    /\ HandedOut(FirstAdd) = 2
    /\ HasId(tasks, 2)

====
